---- MODULE Spec2Model ----
(***************************************************************************)
(* Role resolution and group-membership lifecycle of the parenting         *)
(* community backend.                                                      *)
(*                                                                         *)
(* The stores are the MongoDB collections the handlers read and write:     *)
(*   group  - the Group document (one group id is modelled)                *)
(*   mem    - the GroupMembership documents of that group, one per user    *)
(*   roles  - the UserRole documents                                       *)
(* A request is a process: it runs its route's middleware and handler one  *)
(* store access (one await) at a time, keeping the documents it loaded in  *)
(* local fields, and parks in "done" with its HTTP result until the        *)
(* response has left.                                                      *)
(***************************************************************************)
EXTENDS Integers, FiniteSets, Sequences, TLC

\* ---------------------------------------------------------------- bounds
MaxCount == 3

Users == {"u1", "u2", "u3"}
Creators == {"u1"}
Procs == {"p1", "p2"}
Types == {"Public", "Private"}
Communities == {"c1", "c2"}

VARIABLES group, mem, roles, proc, tally, rt, answer, application, community

vars == <<group, mem, roles, proc, tally, rt, answer, application, community>>

\* ------------------------------------------------------ documents (schemas)
\* the expert application of one applicant for one community: not submitted
NoApplication == [status |-> "none", user |-> "null", cid |-> "null"]

\* the parent community of the group: communitySchema.groupCount, default 0
NoCommunity == [groupCount |-> 0]

\* Group document: only the fields the membership handlers read or write.
NoGroup ==
  [exists |-> FALSE, createdBy |-> "null", type |-> "null", memberCount |-> 0,
   status |-> "null"]

DefaultMemberCount == 1

NewGroup(u, ty) ==
  [exists |-> TRUE, createdBy |-> u, type |-> ty, memberCount |-> DefaultMemberCount,
   status |-> "active"]

\* GroupMembership document; status "none" stands for "no document".
NoMem ==
  [status |-> "none", role |-> "null", approvedAt |-> FALSE, approvedBy |-> "null",
   bannedAt |-> FALSE, bannedBy |-> "null", banReason |-> "null", leftAt |-> FALSE]

NewMembership(st, rl, approver) ==
  [status |-> st, role |-> rl, approvedAt |-> (approver # "null"), approvedBy |-> approver,
   bannedAt |-> FALSE, bannedBy |-> "null", banReason |-> "null", leftAt |-> FALSE]

ActiveCount == Cardinality({u \in Users : mem[u].status = "active"})

\* ------------------------------------------------------------ request state
\* a, t: acting user and target; gcount, gtype: memberCount and type of the group
\* document the request loaded; mu, ms: the user and status of the membership
\* document it holds; gone: that document has been deleted since; glob: the
\* global permission it computed; newCount: the memberCount it is about to save;
\* res: its response; adj: the counter adjustment it applied; raced: it held
\* the pending record while another request held it too; body: what the request
\* body holds for the field the handler validates
Idle ==
  [pc |-> "idle", op |-> "null", a |-> "null", t |-> "null", gcount |-> 0,
   gtype |-> "null", mu |-> "null", ms |-> "none", gone |-> FALSE, glob |-> FALSE,
   newCount |-> 0, res |-> "null", adj |-> 0, raced |-> FALSE, body |-> "null"]

InFlight(p) == proc[p].pc \notin {"idle", "done"}

\* no request is being handled
Quiet == \A q \in Procs : ~InFlight(q)

Set(p, r) == proc' = [proc EXCEPT ![p] = r]

\* the response is sent: the request parks with its result until it has left
Parked(r, result) ==
  [Idle EXCEPT !.pc = "done", !.op = r.op, !.a = r.a, !.t = r.t, !.res = result,
               !.adj = r.adj, !.raced = r.raced]

Respond(p, r, result) == Set(p, Parked(r, result))

\* bookkeeping for the counter: the stored memberCount when the first of a run
\* of overlapping requests began, how many requests the run has (at most
\* MaxOverlap are followed), and the adjustments they have applied
MaxOverlap == 2

NoTally == [on |-> FALSE, n |-> 0, k |-> 0, sum |-> 0]

\* bookkeeping for ban followed by unban: the user banned last and the stored
\* memberCount before that ban, kept while no other request has begun, and the
\* request that unbans that user next
NoRoundTrip == [user |-> "null", base |-> 0, by |-> "null"]

Request(o, actor, target, first) ==
  [Idle EXCEPT !.pc = first, !.op = o, !.a = actor, !.t = target]

\* a request arrives and is dispatched to its route
Start(p, r) ==
  /\ proc[p].pc = "idle"
  /\ Set(p, r)
  /\ tally' = IF r.op = "create" THEN NoTally
              ELSE IF Quiet THEN [on |-> TRUE, n |-> group.memberCount, k |-> 1, sum |-> 0]
              ELSE IF tally.on /\ tally.k < MaxOverlap THEN [tally EXCEPT !.k = @ + 1]
              ELSE NoTally
  /\ rt' = IF r.op = "unban" /\ rt.user = r.t /\ rt.by = "null" /\ Quiet
           THEN [rt EXCEPT !.by = p]
           ELSE NoRoundTrip
  /\ UNCHANGED <<group, mem, roles, answer, application, community>>

\* a store write that deletes the membership document of user u invalidates the
\* copies other requests hold of it: their save finds no document with that _id
DropHeld(pr, p, u) ==
  [q \in Procs |-> IF q # p /\ pr[q].mu = u /\ pr[q].pc # "done"
                   THEN [pr[q] EXCEPT !.gone = TRUE] ELSE pr[q]]

\* ------------------------------------------------------------- UserRole store
Permissions ==
  {"create_community", "edit_community", "delete_community", "assign_moderators",
   "approve_experts", "manage_groups", "moderate_posts", "ban_users", "view_reports",
   "mark_best_answer", "pin_posts", "edit_group", "delete_group"}

RoleKinds == {"admin", "expert", "moderator", "groupAdmin", "user"}

\* pre('save'): the permission table applied to a new record (or on a role change);
\* a role without a case keeps the permissions it was given
DefaultPermissions(role, given) ==
  CASE role = "admin" ->
         {"create_community", "edit_community", "delete_community", "assign_moderators",
          "approve_experts", "manage_groups", "moderate_posts", "ban_users",
          "view_reports", "pin_posts", "edit_group", "delete_group"}
    [] role = "moderator" -> {"moderate_posts", "ban_users", "view_reports", "pin_posts"}
    [] role = "expert" -> {"mark_best_answer"}
    [] role = "user" -> {}
    [] OTHER -> given

NewRole(u, role, cid, given, vs) ==
  [user |-> u, role |-> role, cid |-> cid, gid |-> "null",
   perms |-> DefaultPermissions(role, given), active |-> TRUE, vstatus |-> vs]

\* methods.hasPermission
hasPermission(r, perm) == r.active /\ perm \in r.perms

\* the scope filter of userHasPermission's second query: each `if` assigns
\* query.$or, so a group id replaces the community filter
ScopeFilter(r, cid, gid) ==
  IF gid # "null" THEN r.gid \in {gid, "null"}
  ELSE IF cid # "null" THEN r.cid \in {cid, "null"}
  ELSE TRUE

\* statics.userHasPermission, on the store contents rs
userHasPermissionExactScope(rs, u, perm, cid, gid) ==
  \E r \in rs : r.user = u /\ r.cid = cid /\ r.gid = gid /\ hasPermission(r, perm)
userHasPermission(rs, u, perm, cid, gid) ==
  LET adminRoles == {r \in rs : r.user = u /\ r.role = "admin" /\ r.active
                                 /\ r.cid = "null" /\ r.gid = "null"}
      userRoles == {r \in rs : r.user = u /\ r.active /\ ScopeFilter(r, cid, gid)}
  IN  \/ \E r \in adminRoles : hasPermission(r, perm)
      \/ \E r \in userRoles : hasPermission(r, perm)

\* ------------------------------------------------- shared steps of a request
\* group.save(): Mongoose writes the modified path, memberCount, with $set
SaveGroup(p) ==
  /\ proc[p].pc = "saveGroup"
  /\ group' = [group EXCEPT !.memberCount = proc[p].newCount]
  /\ Respond(p, [proc[p] EXCEPT !.adj = proc[p].newCount - proc[p].gcount], "ok")
  /\ tally' = IF tally.on
              THEN [tally EXCEPT !.sum = @ + (proc[p].newCount - proc[p].gcount)]
              ELSE tally
  /\ UNCHANGED <<mem, roles, rt, answer, application, community>>

\* res.json(...) has been sent: the request is over
Return(p) ==
  /\ proc[p].pc = "done"
  /\ Set(p, Idle)
  /\ tally' = IF \A q \in Procs \ {p} : proc[q].pc = "idle" THEN NoTally ELSE tally
  /\ UNCHANGED <<group, mem, roles, rt, answer, application, community>>

\* ------------------------------------------------------------- createGroup
BeginCreateGroup(p, u, ty) ==
  /\ ~group.exists
  /\ \A q \in Procs : proc[q].op # "create"
  /\ Start(p, [Request("create", u, u, "create_saveGroup") EXCEPT !.gtype = ty])

\* new Group(groupData).save(): memberCount takes the schema default
CreateSaveGroup(p) ==
  /\ proc[p].pc = "create_saveGroup"
  /\ group' = NewGroup(proc[p].a, proc[p].gtype)
  /\ Set(p, [proc[p] EXCEPT !.pc = "create_saveMember", !.gcount = DefaultMemberCount])
  /\ UNCHANGED <<mem, roles, tally, rt, answer, application, community>>

\* the creator's membership: active, role admin, self-approved; the unique index
\* (groupId, userId) refuses a second document
CreateSaveMember(p) ==
  /\ proc[p].pc = "create_saveMember"
  /\ LET u == proc[p].a IN
     IF mem[u].status # "none"
     THEN /\ Respond(p, proc[p], "error")
          /\ UNCHANGED mem
     ELSE /\ mem' = [mem EXCEPT ![u] = NewMembership("active", "admin", u)]
          /\ Respond(p, proc[p], "ok")
  /\ UNCHANGED <<group, roles, tally, rt, answer, application, community>>

\* ---------------------------------------------------------------- joinGroup
JoinStatusAlwaysActive(ty) == "active"
JoinStatus(ty) == IF ty = "Public" THEN "active" ELSE "pending"

BeginJoin(p, u) ==
  /\ group.memberCount < MaxCount
  /\ Start(p, Request("join", u, u, "join_findGroup"))

JoinFindGroup(p) ==
  /\ proc[p].pc = "join_findGroup"
  /\ IF ~group.exists
     THEN Respond(p, proc[p], "nogroup")
     ELSE Set(p, [proc[p] EXCEPT !.pc = "join_findMember", !.gcount = group.memberCount,
                                 !.gtype = group.type])
  /\ UNCHANGED <<group, mem, roles, tally, rt, answer, application, community>>

\* findOne({groupId, userId}) and the branches on the status found; a banned
\* record takes neither branch and falls through to the insert
JoinFindMember(p) ==
  /\ proc[p].pc = "join_findMember"
  /\ LET u == proc[p].a
         st == mem[u].status
     IN  IF st \in {"active", "pending"}
         THEN Respond(p, proc[p], "already")
         ELSE IF st = "left"
         THEN Set(p, [proc[p] EXCEPT !.pc = "join_saveRejoin", !.mu = u,
                                     !.ms = JoinStatus(proc[p].gtype)])
         ELSE Set(p, [proc[p] EXCEPT !.pc = "join_insert",
                                     !.ms = JoinStatus(proc[p].gtype)])
  /\ UNCHANGED <<group, mem, roles, tally, rt, answer, application, community>>

\* existingMembership.save() of the reactivated record, then the counter branch
JoinSaveRejoin(p) ==
  /\ proc[p].pc = "join_saveRejoin"
  /\ LET u == proc[p].a
         st == proc[p].ms
     IN  IF proc[p].gone
         THEN /\ Respond(p, proc[p], "error")
              /\ UNCHANGED mem
         ELSE /\ mem' = [mem EXCEPT ![u] =
                           [@ EXCEPT !.status = st, !.leftAt = FALSE,
                                     !.approvedAt = (st = "active"),
                                     !.approvedBy = IF st = "active" THEN u ELSE "null"]]
              /\ IF st = "active"
                 THEN Set(p, [proc[p] EXCEPT !.pc = "saveGroup",
                                             !.newCount = proc[p].gcount + 1])
                 ELSE Respond(p, proc[p], "ok")
  /\ UNCHANGED <<group, roles, tally, rt, answer, application, community>>

\* new GroupMembership(membershipData).save(), then the counter branch
JoinInsert(p) ==
  /\ proc[p].pc = "join_insert"
  /\ LET u == proc[p].a
         st == proc[p].ms
     IN  IF mem[u].status # "none"
         THEN /\ Respond(p, proc[p], "error")
              /\ UNCHANGED mem
         ELSE /\ mem' = [mem EXCEPT ![u] =
                           NewMembership(st, "member", IF st = "active" THEN u ELSE "null")]
              /\ IF st = "active"
                 THEN Set(p, [proc[p] EXCEPT !.pc = "saveGroup",
                                             !.newCount = proc[p].gcount + 1])
                 ELSE Respond(p, proc[p], "ok")
  /\ UNCHANGED <<group, roles, tally, rt, answer, application, community>>
\* ------------------------------------------------------ membership middleware
\* requireGroupMembership(membershipStatus, roles): findOne by status, then the role
requireGroupMembershipAnyStatus(m, statuses, rls) ==
  /\ m.status # "none"
  /\ rls # {} => m.role \in rls
requireGroupMembership(m, statuses, rls) ==
  /\ m.status \in statuses
  /\ rls # {} => m.role \in rls

\* the handlers' own query {status: 'active', role: {$in: ['admin', 'moderator']}}
IsGroupModerator(m) == m.status = "active" /\ m.role \in {"admin", "moderator"}

\* --------------------------------------------------------------- leaveGroup
BeginLeave(p, u) == Start(p, Request("leave", u, u, "leave_mw"))

\* route: requireGroupMembership('active')
LeaveMiddleware(p) ==
  /\ proc[p].pc = "leave_mw"
  /\ IF requireGroupMembership(mem[proc[p].a], {"active"}, {})
     THEN Set(p, [proc[p] EXCEPT !.pc = "leave_findGroup"])
     ELSE Respond(p, proc[p], "forbidden")
  /\ UNCHANGED <<group, mem, roles, tally, rt, answer, application, community>>

LeaveFindGroup(p) ==
  /\ proc[p].pc = "leave_findGroup"
  /\ IF ~group.exists
     THEN Respond(p, proc[p], "nogroup")
     ELSE Set(p, [proc[p] EXCEPT !.pc = "leave_findMember", !.gcount = group.memberCount])
  /\ UNCHANGED <<group, mem, roles, tally, rt, answer, application, community>>

\* the creator test of leaveGroup (createdBy never changes once stored)
LeaveCreatorTest(g, u) == g.createdBy = u

\* findOne({status: {$in: ['active', 'pending']}}), then the creator test
LeaveFindMember(p) ==
  /\ proc[p].pc = "leave_findMember"
  /\ LET u == proc[p].a IN
     IF mem[u].status \notin {"active", "pending"}
     THEN Respond(p, proc[p], "notmember")
     ELSE IF LeaveCreatorTest(group, u)
     THEN Respond(p, proc[p], "creator")
     ELSE Set(p, [proc[p] EXCEPT !.pc = "leave_save", !.mu = u, !.ms = mem[u].status])
  /\ UNCHANGED <<group, mem, roles, tally, rt, answer, application, community>>

\* methods.leave() sets this.status = 'left' and saves; the handler then tests
\* membership.status === 'active' on the document it has just changed
LeaveSave(p) ==
  /\ proc[p].pc = "leave_save"
  /\ LET u == proc[p].a
         r == [proc[p] EXCEPT !.ms = "left"]
     IN  IF proc[p].gone
         THEN /\ Respond(p, proc[p], "error")
              /\ UNCHANGED mem
         ELSE /\ mem' = [mem EXCEPT ![u] = [@ EXCEPT !.status = "left", !.leftAt = TRUE]]
              /\ IF r.ms = "active"
                 THEN Set(p, [r EXCEPT !.pc = "saveGroup",
                                       !.newCount = IF r.gcount - 1 > 0
                                                    THEN r.gcount - 1 ELSE 0])
                 ELSE Respond(p, r, "ok")
  /\ UNCHANGED <<group, roles, tally, rt, answer, application, community>>

\* ------------------------------------------------------- approveJoinRequest
BeginApprove(p, u, target) ==
  /\ group.memberCount < MaxCount
  /\ Start(p, Request("approve", u, target, "approve_mw"))

\* route: requireGroupModerator
ApproveMiddleware(p) ==
  /\ proc[p].pc = "approve_mw"
  /\ IF requireGroupMembership(mem[proc[p].a], {"active"}, {"admin", "moderator"})
     THEN Set(p, [proc[p] EXCEPT !.pc = "approve_findGroup"])
     ELSE Respond(p, proc[p], "forbidden")
  /\ UNCHANGED <<group, mem, roles, tally, rt, answer, application, community>>

ApproveFindGroup(p) ==
  /\ proc[p].pc = "approve_findGroup"
  /\ IF ~group.exists
     THEN Respond(p, proc[p], "nogroup")
     ELSE Set(p, [proc[p] EXCEPT !.pc = "approve_findAdmin", !.gcount = group.memberCount])
  /\ UNCHANGED <<group, mem, roles, tally, rt, answer, application, community>>

ApproveFindAdmin(p) ==
  /\ proc[p].pc = "approve_findAdmin"
  /\ IF IsGroupModerator(mem[proc[p].a])
     THEN Set(p, [proc[p] EXCEPT !.pc = "approve_findMember"])
     ELSE Respond(p, proc[p], "forbidden")
  /\ UNCHANGED <<group, mem, roles, tally, rt, answer, application, community>>

\* request q holds the pending record of target, found and not yet written
HoldsPending(q, target) ==
  /\ proc[q].pc \in {"approve_save", "reject_delete"}
  /\ proc[q].mu = target
  /\ ~proc[q].gone

\* the query that selects the record to approve: {groupId, userId, status: 'pending'}
PendingRequestAny(m) == m.status # "none"
PendingRequest(m) == m.status = "pending"

ApproveFindMember(p) ==
  /\ proc[p].pc = "approve_findMember"
  /\ LET target == proc[p].t IN
     IF PendingRequest(mem[target])
     THEN proc' = [q \in Procs |->
                     IF q = p
                     THEN [proc[p] EXCEPT !.pc = "approve_save", !.mu = target,
                                          !.ms = mem[target].status,
                                          !.raced = \E o \in Procs \ {p} : HoldsPending(o, target)]
                     ELSE IF HoldsPending(q, target)
                     THEN [proc[q] EXCEPT !.raced = TRUE]
                     ELSE proc[q]]
     ELSE Respond(p, proc[p], "notfound")
  /\ UNCHANGED <<group, mem, roles, tally, rt, answer, application, community>>

\* methods.approve(approvedBy), then group.memberCount += 1
ApproveSave(p) ==
  /\ proc[p].pc = "approve_save"
  /\ LET target == proc[p].t IN
     IF proc[p].gone
     THEN /\ Respond(p, proc[p], "error")
          /\ UNCHANGED mem
     ELSE /\ mem' = [mem EXCEPT ![target] =
                       [@ EXCEPT !.status = "active", !.approvedAt = TRUE,
                                 !.approvedBy = proc[p].a]]
          /\ Set(p, [proc[p] EXCEPT !.pc = "saveGroup", !.ms = "active",
                                    !.newCount = proc[p].gcount + 1])
  /\ UNCHANGED <<group, roles, tally, rt, answer, application, community>>

\* -------------------------------------------------------- rejectJoinRequest
BeginReject(p, u, target) == Start(p, Request("reject", u, target, "reject_mw"))

RejectMiddleware(p) ==
  /\ proc[p].pc = "reject_mw"
  /\ IF requireGroupMembership(mem[proc[p].a], {"active"}, {"admin", "moderator"})
     THEN Set(p, [proc[p] EXCEPT !.pc = "reject_findGroup"])
     ELSE Respond(p, proc[p], "forbidden")
  /\ UNCHANGED <<group, mem, roles, tally, rt, answer, application, community>>

RejectFindGroup(p) ==
  /\ proc[p].pc = "reject_findGroup"
  /\ IF ~group.exists
     THEN Respond(p, proc[p], "nogroup")
     ELSE Set(p, [proc[p] EXCEPT !.pc = "reject_findAdmin", !.gcount = group.memberCount])
  /\ UNCHANGED <<group, mem, roles, tally, rt, answer, application, community>>

RejectFindAdmin(p) ==
  /\ proc[p].pc = "reject_findAdmin"
  /\ IF IsGroupModerator(mem[proc[p].a])
     THEN Set(p, [proc[p] EXCEPT !.pc = "reject_findMember"])
     ELSE Respond(p, proc[p], "forbidden")
  /\ UNCHANGED <<group, mem, roles, tally, rt, answer, application, community>>

RejectFindMember(p) ==
  /\ proc[p].pc = "reject_findMember"
  /\ LET target == proc[p].t IN
     IF PendingRequest(mem[target])
     THEN proc' = [q \in Procs |->
                     IF q = p
                     THEN [proc[p] EXCEPT !.pc = "reject_delete", !.mu = target,
                                          !.ms = mem[target].status,
                                          !.raced = \E o \in Procs \ {p} : HoldsPending(o, target)]
                     ELSE IF HoldsPending(q, target)
                     THEN [proc[q] EXCEPT !.raced = TRUE]
                     ELSE proc[q]]
     ELSE Respond(p, proc[p], "notfound")
  /\ UNCHANGED <<group, mem, roles, tally, rt, answer, application, community>>

\* findByIdAndDelete(membership._id): deletes by _id whatever the status now is,
\* and answers success also when the document is already gone
RejectDelete(p) ==
  /\ proc[p].pc = "reject_delete"
  /\ LET target == proc[p].t IN
     IF proc[p].gone
     THEN /\ Respond(p, proc[p], "ok")
          /\ UNCHANGED mem
     ELSE /\ mem' = [mem EXCEPT ![target] = NoMem]
          /\ proc' = [DropHeld(proc, p, target) EXCEPT
                        ![p] = Parked(proc[p], "ok")]
  /\ UNCHANGED <<group, roles, tally, rt, answer, application, community>>

\* --------------------------------------------------------- banUserFromGroup
Max0Unclamped(n) == n
Max0(n) == IF n > 0 THEN n ELSE 0

BeginBan(p, u, target) == Start(p, Request("ban", u, target, "ban_perm"))

\* UserRole.userHasPermission(req.user._id, 'ban_users'): no scope is passed
BanPermission(p) ==
  /\ proc[p].pc = "ban_perm"
  /\ Set(p, [proc[p] EXCEPT !.pc = "ban_findMod",
               !.glob = userHasPermission(roles, proc[p].a, "ban_users", "null", "null")])
  /\ UNCHANGED <<group, mem, roles, tally, rt, answer, application, community>>

BanFindModerator(p) ==
  /\ proc[p].pc = "ban_findMod"
  /\ IF proc[p].glob \/ IsGroupModerator(mem[proc[p].a])
     THEN Set(p, [proc[p] EXCEPT !.pc = "ban_findMember"])
     ELSE Respond(p, proc[p], "forbidden")
  /\ UNCHANGED <<group, mem, roles, tally, rt, answer, application, community>>

BanFindMember(p) ==
  /\ proc[p].pc = "ban_findMember"
  /\ LET target == proc[p].t IN
     IF mem[target].status = "active"
     THEN Set(p, [proc[p] EXCEPT !.pc = "ban_findGroup", !.mu = target,
                                 !.ms = mem[target].status])
     ELSE Respond(p, proc[p], "notfound")
  /\ UNCHANGED <<group, mem, roles, tally, rt, answer, application, community>>

\* the creator test of banUserFromGroup
BanCreatorTestOff(g, target) == FALSE
BanCreatorTest(g, target) == g.createdBy = target

\* Group.findById(groupId), then the creator test (a missing group throws)
BanFindGroup(p) ==
  /\ proc[p].pc = "ban_findGroup"
  /\ IF ~group.exists
     THEN Respond(p, proc[p], "error")
     ELSE IF BanCreatorTest(group, proc[p].t)
     THEN Respond(p, [proc[p] EXCEPT !.gcount = group.memberCount], "creator")
     ELSE Set(p, [proc[p] EXCEPT !.pc = "ban_save", !.gcount = group.memberCount])
  /\ UNCHANGED <<group, mem, roles, tally, rt, answer, application, community>>

\* the counter value banUserFromGroup stores
BanCount(n) == Max0(n - 1)

\* methods.ban(bannedBy, reason), then memberCount = Math.max(0, memberCount - 1)
BanSave(p) ==
  /\ proc[p].pc = "ban_save"
  /\ LET target == proc[p].t IN
     IF proc[p].gone
     THEN /\ Respond(p, proc[p], "error")
          /\ UNCHANGED mem
     ELSE /\ mem' = [mem EXCEPT ![target] =
                       [@ EXCEPT !.status = "banned", !.bannedAt = TRUE,
                                 !.bannedBy = proc[p].a, !.banReason = "reason"]]
          /\ Set(p, [proc[p] EXCEPT !.pc = "saveGroup", !.ms = "banned",
                                    !.newCount = BanCount(proc[p].gcount)])
  /\ rt' = IF /\ ~proc[p].gone
              /\ mem[proc[p].t].status = "active"
              /\ \A q \in Procs \ {p} : ~InFlight(q)
              /\ proc[p].gcount = group.memberCount
           THEN [user |-> proc[p].t, base |-> group.memberCount, by |-> "null"]
           ELSE NoRoundTrip
  /\ UNCHANGED <<group, roles, tally, answer, application, community>>

\* ------------------------------------------------------- unbanUserFromGroup
BeginUnban(p, u, target) ==
  /\ group.memberCount < MaxCount
  /\ Start(p, Request("unban", u, target, "unban_perm"))

UnbanPermission(p) ==
  /\ proc[p].pc = "unban_perm"
  /\ Set(p, [proc[p] EXCEPT !.pc = "unban_findMod",
               !.glob = userHasPermission(roles, proc[p].a, "ban_users", "null", "null")])
  /\ UNCHANGED <<group, mem, roles, tally, rt, answer, application, community>>

UnbanFindModerator(p) ==
  /\ proc[p].pc = "unban_findMod"
  /\ IF proc[p].glob \/ IsGroupModerator(mem[proc[p].a])
     THEN Set(p, [proc[p] EXCEPT !.pc = "unban_findMember"])
     ELSE Respond(p, proc[p], "forbidden")
  /\ UNCHANGED <<group, mem, roles, tally, rt, answer, application, community>>

UnbanFindMember(p) ==
  /\ proc[p].pc = "unban_findMember"
  /\ LET target == proc[p].t IN
     IF mem[target].status = "banned"
     THEN Set(p, [proc[p] EXCEPT !.pc = "unban_save", !.mu = target,
                                 !.ms = mem[target].status])
     ELSE Respond(p, proc[p], "notfound")
  /\ UNCHANGED <<group, mem, roles, tally, rt, answer, application, community>>

\* status = 'active', the ban fields = null, save
UnbanSave(p) ==
  /\ proc[p].pc = "unban_save"
  /\ LET target == proc[p].t IN
     IF proc[p].gone
     THEN /\ Respond(p, proc[p], "error")
          /\ UNCHANGED mem
     ELSE /\ mem' = [mem EXCEPT ![target] =
                       [@ EXCEPT !.status = "active", !.bannedAt = FALSE,
                                 !.bannedBy = "null", !.banReason = "null"]]
          /\ Set(p, [proc[p] EXCEPT !.pc = "unban_findGroup", !.ms = "active"])
  /\ UNCHANGED <<group, roles, tally, rt, answer, application, community>>

\* Group.findById(groupId) after the membership is saved, then memberCount += 1
UnbanFindGroup(p) ==
  /\ proc[p].pc = "unban_findGroup"
  /\ IF ~group.exists
     THEN Respond(p, proc[p], "error")
     ELSE Set(p, [proc[p] EXCEPT !.pc = "saveGroup", !.gcount = group.memberCount,
                                 !.newCount = group.memberCount + 1])
  /\ UNCHANGED <<group, mem, roles, tally, rt, answer, application, community>>

\* -------------------------------------------------------------- updateGroup
\* route isGroupAdmin (group.admins holds the creator only), then the handler's
\* creator-or-platform-admin test; of the fields written only type is modelled
UpdateGroup(u, ty) ==
  /\ group.exists
  /\ group.createdBy = u
  /\ \/ group.createdBy = u
     \/ \E r \in roles : r.user = u /\ r.role = "admin" /\ r.cid = "null" /\ r.active
  /\ ty # group.type
  /\ group' = [group EXCEPT !.type = ty]
  /\ UNCHANGED <<mem, roles, proc, tally, rt, answer, application, community>>

\* ------------------------------------------------------------ specifications
\* the last authorization question asked and its answer
NoAnswer == [kind |-> "null", user |-> "null", what |-> "null", cid |-> "null",
             gid |-> "null", result |-> FALSE]

Init ==
  /\ group = NoGroup
  /\ mem = [u \in Users |-> NoMem]
  /\ roles = {}
  /\ proc = [p \in Procs |-> Idle]
  /\ tally = NoTally
  /\ rt = NoRoundTrip
  /\ answer = NoAnswer
  /\ application = NoApplication
  /\ community = NoCommunity

Moderated == Users \ Creators

Begins(p) ==
  \/ \E u \in Creators, ty \in Types : BeginCreateGroup(p, u, ty)
  \/ \E u \in Users : BeginJoin(p, u)
  \/ \E u \in Users : BeginLeave(p, u)
  \/ \E u, target \in Users : BeginApprove(p, u, target)
  \/ \E u, target \in Users : BeginReject(p, u, target)
  \/ \E u, target \in Users : BeginBan(p, u, target)
  \/ \E u, target \in Users : BeginUnban(p, u, target)

StepsJoin(p) ==
  \/ CreateSaveGroup(p) \/ CreateSaveMember(p)
  \/ JoinFindGroup(p) \/ JoinFindMember(p) \/ JoinInsert(p)
  \/ SaveGroup(p) \/ Return(p)

StepsLeave(p) ==
  \/ LeaveMiddleware(p) \/ LeaveFindGroup(p) \/ LeaveFindMember(p) \/ LeaveSave(p)
  \/ JoinSaveRejoin(p)

StepsApprove(p) ==
  \/ ApproveMiddleware(p) \/ ApproveFindGroup(p) \/ ApproveFindAdmin(p)
  \/ ApproveFindMember(p) \/ ApproveSave(p)
  \/ RejectMiddleware(p) \/ RejectFindGroup(p) \/ RejectFindAdmin(p)
  \/ RejectFindMember(p) \/ RejectDelete(p)

StepsBan(p) ==
  \/ BanPermission(p) \/ BanFindModerator(p) \/ BanFindMember(p) \/ BanFindGroup(p)
  \/ BanSave(p)

StepsUnban(p) ==
  \/ UnbanPermission(p) \/ UnbanFindModerator(p) \/ UnbanFindMember(p) \/ UnbanSave(p)
  \/ UnbanFindGroup(p)

Steps(p) ==
  StepsJoin(p) \/ StepsLeave(p) \/ StepsApprove(p) \/ StepsBan(p) \/ StepsUnban(p)

AllIdle == \A q \in Procs : proc[q].pc = "idle"

\* requests handled one after the other
NextSeq ==
  \/ \E p \in Procs : AllIdle /\ Begins(p)
  \/ \E p \in Procs : Steps(p)
  \/ \E u \in Users, ty \in Types : UpdateGroup(u, ty)

Spec == Init /\ [][NextSeq]_vars

\* join requests and the moderators' decisions on them, interleaved at their awaits
NextRace ==
  \/ \E p \in Procs, u \in Creators, ty \in Types : BeginCreateGroup(p, u, ty)
  \/ \E p \in Procs, u \in Users : BeginJoin(p, u)
  \/ \E p \in Procs, u \in Creators, target \in Moderated : BeginApprove(p, u, target)
  \/ \E p \in Procs, u \in Creators, target \in Moderated : BeginReject(p, u, target)
  \/ \E p \in Procs : StepsJoin(p) \/ StepsApprove(p)

SpecRace == Init /\ [][NextRace]_vars

\* join requests, bans and unbans, interleaved at their awaits
NextBan ==
  \/ \E p \in Procs, u \in Creators, ty \in Types : BeginCreateGroup(p, u, ty)
  \/ \E p \in Procs, u \in Users : BeginJoin(p, u)
  \/ \E p \in Procs, u \in Creators, target \in Moderated : BeginBan(p, u, target)
  \/ \E p \in Procs, u \in Creators, target \in Moderated : BeginUnban(p, u, target)
  \/ \E p \in Procs : StepsJoin(p) \/ StepsBan(p) \/ StepsUnban(p)

SpecBan == Init /\ [][NextBan]_vars

\* join, leave and ban requests by and on any user, interleaved at their awaits
NextGuard ==
  \/ \E p \in Procs, u \in Creators, ty \in Types : BeginCreateGroup(p, u, ty)
  \/ \E p \in Procs, u \in Users : BeginJoin(p, u)
  \/ \E p \in Procs, u \in Users : BeginLeave(p, u)
  \/ \E p \in Procs, u \in Creators, target \in Users : BeginBan(p, u, target)
  \/ \E p \in Procs : StepsJoin(p) \/ StepsLeave(p) \/ StepsBan(p)

SpecGuard == Init /\ [][NextGuard]_vars

\* ===================================================== role records and checks
\* Requests on the UserRole collection, handled one after the other, and the
\* authorization checks asked against it.
MaxRoles == 2

\* the users role records are written for; u3 holds no role record
RoleUsers == {"u1", "u2"}

GroupId == "g1"
GroupCommunity == "c1"

\* permission lists a caller supplies to assignRole / updatePermissions
GivenPermissions == {{}, {"mark_best_answer"}}

RoleKey(r) == <<r.user, r.role, r.cid, r.gid>>

\* insert under the unique index {userId, role, communityId, groupId}
InsertRoleNoIndex(rs, r) == rs \cup {r}
InsertRole(rs, r) ==
  IF \E o \in rs : RoleKey(o) = RoleKey(r) THEN rs ELSE rs \cup {r}

\* requireRole(roles): find({userId, isActive: true}), some role in the list
requireRole(rs, u, wanted) == \E r \in rs : r.user = u /\ r.active /\ r.role \in wanted

\* the routes of the role handlers: requireAdmin lets some caller through
AdminCaller == \E a \in Users : requireRole(roles, a, {"admin"})

\* assignRole: refused when an active record of the role exists; the new record
\* is platform-scoped and pre('save') sets its permissions
AssignRole(u, role, given) ==
  /\ answer = NoAnswer
  /\ AdminCaller
  /\ Cardinality(roles) < MaxRoles
  /\ ~\E r \in roles : r.user = u /\ r.role = role /\ r.active
  /\ roles' = InsertRole(roles, NewRole(u, role, "null", given, "pending"))
  /\ UNCHANGED <<group, mem, proc, tally, rt, answer, application, community>>

\* removeRole: findOne({userId, role, isActive: true}), isActive = false, save
RemoveRole(u, role) ==
  /\ answer = NoAnswer
  /\ AdminCaller
  /\ \E r \in roles :
       /\ r.user = u /\ r.role = role /\ r.active
       /\ roles' = (roles \ {r}) \cup {[r EXCEPT !.active = FALSE]}
  /\ UNCHANGED <<group, mem, proc, tally, rt, answer, application, community>>

\* verifyExpert / rejectExpert: findOne({userId, role: 'expert', isActive: true})
VerifyExpert(u) ==
  /\ answer = NoAnswer
  /\ AdminCaller
  /\ \E r \in roles :
       /\ r.user = u /\ r.role = "expert" /\ r.active /\ r.vstatus # "verified"
       /\ roles' = (roles \ {r}) \cup {[r EXCEPT !.vstatus = "verified"]}
  /\ UNCHANGED <<group, mem, proc, tally, rt, answer, application, community>>

RejectExpert(u) ==
  /\ answer = NoAnswer
  /\ AdminCaller
  /\ \E r \in roles :
       /\ r.user = u /\ r.role = "expert" /\ r.active /\ r.vstatus # "rejected"
       /\ roles' = (roles \ {r}) \cup {[r EXCEPT !.vstatus = "rejected"]}
  /\ UNCHANGED <<group, mem, proc, tally, rt, answer, application, community>>

\* updatePermissions: the stored list is replaced by the supplied one
UpdatePermissions(u, role, given) ==
  /\ answer = NoAnswer
  /\ AdminCaller
  /\ \E r \in roles :
       /\ r.user = u /\ r.role = role /\ r.active /\ r.perms # given
       /\ roles' = (roles \ {r}) \cup {[r EXCEPT !.perms = given]}
  /\ UNCHANGED <<group, mem, proc, tally, rt, answer, application, community>>

\* approveApplication, by a caller holding approve_experts, of a pending
\* application of u for community cid: the expert record it creates, scoped to
\* that community and verified
ApproveApplication(u, cid) ==
  /\ answer = NoAnswer
  /\ \E a \in Users : userHasPermission(roles, a, "approve_experts", "null", "null")
  /\ Cardinality(roles) < MaxRoles
  /\ ~\E r \in roles : RoleKey(r) = <<u, "expert", cid, "null">>
  /\ roles' = InsertRole(roles, NewRole(u, "expert", cid, {}, "verified"))
  /\ UNCHANGED <<group, mem, proc, tally, rt, answer, application, community>>

\* the scopes a permission query is asked for: the platform, a community, the
\* group within its community
QueryScopes ==
  {<<"null", "null">>} \cup {<<c, "null">> : c \in Communities}
     \cup {<<GroupCommunity, GroupId>>, <<"null", GroupId>>}

\* requirePermission / requireScopedPermission: the answer of userHasPermission
CheckPermission(u, perm, sc) ==
  /\ answer = NoAnswer
  /\ answer' = [kind |-> "perm", user |-> u, what |-> perm, cid |-> sc[1], gid |-> sc[2],
                result |-> userHasPermission(roles, u, perm, sc[1], sc[2])]
  /\ UNCHANGED <<group, mem, roles, proc, tally, rt, application, community>>

CheckRole(u, role) ==
  /\ answer = NoAnswer
  /\ answer' = [kind |-> "role", user |-> u, what |-> role, cid |-> "null", gid |-> "null",
                result |-> requireRole(roles, u, {role})]
  /\ UNCHANGED <<group, mem, roles, proc, tally, rt, application, community>>

\* permitScoped(requiredRole, communityParam): find({userId}), then any admin
\* record, or a record of the required role in the community
permitScoped(rs, u, requiredRole, cid) ==
  LET userRoles == {r \in rs : r.user = u} IN
  IF \E r \in userRoles : r.role = "admin" THEN TRUE
  ELSE IF requiredRole \in {"moderator", "expert"}
  THEN \E r \in userRoles : r.role = requiredRole /\ r.cid # "null" /\ r.cid = cid
  ELSE FALSE

CheckPermitScoped(u, requiredRole, cid) ==
  /\ answer = NoAnswer
  /\ answer' = [kind |-> "scoped", user |-> u, what |-> requiredRole, cid |-> cid,
                gid |-> "null", result |-> permitScoped(roles, u, requiredRole, cid)]
  /\ UNCHANGED <<group, mem, roles, proc, tally, rt, application, community>>

\* markBestAnswer on a post of the group: the permission check with no scope,
\* then the active membership of the post's group
MarkBestAnswer(u) ==
  /\ answer = NoAnswer
  /\ answer' = [kind |-> "mark", user |-> u, what |-> "mark_best_answer", cid |-> "null",
                gid |-> "null",
                result |-> /\ userHasPermission(roles, u, "mark_best_answer", "null", "null")
                           /\ mem[u].status = "active"]
  /\ UNCHANGED <<group, mem, roles, proc, tally, rt, application, community>>

\* the response is sent; the next request is taken
Answered ==
  /\ answer # NoAnswer
  /\ answer' = NoAnswer
  /\ UNCHANGED <<group, mem, roles, proc, tally, rt, application, community>>

\* the platform has one admin, u1, who created the group; u2 and u3 have joined
InitRole ==
  /\ group = [NewGroup("u1", "Public") EXCEPT !.memberCount = 3]
  /\ mem = [u \in Users |-> IF u = "u1" THEN NewMembership("active", "admin", u)
                            ELSE NewMembership("active", "member", u)]
  /\ roles = {NewRole("u1", "admin", "null", {}, "pending")}
  /\ proc = [p \in Procs |-> Idle]
  /\ tally = NoTally
  /\ rt = NoRoundTrip
  /\ answer = NoAnswer
  /\ application = NoApplication
  /\ community = NoCommunity

NextRole ==
  \/ \E u \in RoleUsers, role \in RoleKinds, given \in GivenPermissions : AssignRole(u, role, given)
  \/ \E u \in RoleUsers, role \in RoleKinds : RemoveRole(u, role)
  \/ \E u \in RoleUsers : VerifyExpert(u)
  \/ \E u \in RoleUsers : RejectExpert(u)
  \/ \E u \in RoleUsers, role \in RoleKinds, given \in GivenPermissions :
       UpdatePermissions(u, role, given)
  \/ \E u \in RoleUsers, cid \in Communities : ApproveApplication(u, cid)
  \/ \E u \in Users, perm \in Permissions, sc \in QueryScopes : CheckPermission(u, perm, sc)
  \/ \E u \in Users, role \in RoleKinds : CheckRole(u, role)
  \/ \E u \in Users, role \in {"moderator", "expert"}, cid \in Communities :
       CheckPermitScoped(u, role, cid)
  \/ \E u \in Users : MarkBestAnswer(u)
  \/ Answered

SpecRole == InitRole /\ [][NextRole]_vars

\* ======================================================== membership properties
\* C1: once every request has been answered, the stored memberCount of the group
\* equals the number of its membership records whose status is active, whatever
\* sequence of create, join, approve, reject, leave, ban and unban was handled.
C1_CountEqualsActive ==
  (AllIdle /\ group.exists) => group.memberCount = ActiveCount

\* an approve and a reject that held the same pending record at the same time
\* and have both been answered
RacedPair(p, q) ==
  /\ proc[p].pc = "done" /\ proc[p].op = "approve" /\ proc[p].raced
  /\ proc[q].pc = "done" /\ proc[q].op = "reject" /\ proc[q].raced
  /\ proc[p].t = proc[q].t

\* C2: when an approve and a reject race on the same pending request, exactly
\* one of them succeeds and the other fails finding no record (at its lookup
\* or at its save); the counter is adjusted at most once, and only by an
\* approval whose record stays active.
C2_OneDecisionWins ==
  \A p, q \in Procs :
    RacedPair(p, q) =>
      /\ (proc[p].res = "ok") # (proc[q].res = "ok")
      /\ {proc[p].res, proc[q].res} \subseteq {"ok", "notfound", "error"}
      /\ proc[p].adj # 0 => (proc[p].res = "ok" /\ mem[proc[p].t].status = "active")

\* C3: when requests that change the active set overlap, the memberCount stored
\* once they have all been answered is the count before them plus the
\* adjustment of every accepted transition, each counted exactly once.
C3_NoLostUpdate ==
  (Quiet /\ tally.on) => group.memberCount = tally.n + tally.sum

\* request p is a leave by the creator or a ban of the creator
OnCreator(p) ==
  /\ group.exists
  /\ \/ proc[p].op = "leave" /\ proc[p].a = group.createdBy
     \/ proc[p].op = "ban" /\ proc[p].t = group.createdBy

ApproveLookups ==
  {"approve_mw", "approve_findGroup", "approve_findAdmin", "approve_findMember"}

\* C9: an approveJoinRequest by a group moderator on a membership that is
\* already active is answered not-found at its record lookup, and no step of
\* the request changes the membership records or the group.
C9_SecondApprovalRefused ==
  [][\A p \in Procs :
       (/\ proc[p].pc \in ApproveLookups
        /\ mem[proc[p].t].status = "active"
        /\ proc'[p].pc # proc[p].pc) =>
         /\ mem' = mem
         /\ group' = group
         /\ proc'[p].pc \in ApproveLookups \cup {"done"}
         /\ proc[p].pc = "approve_findMember" =>
              (proc'[p].pc = "done" /\ proc'[p].res = "notfound")]_vars

\* a moderator's second approval of the member they approved before has been
\* answered not-found, with the record and the counter as the first left them
C9_Witness ==
  \E p \in Procs :
    /\ proc[p].pc = "done" /\ proc[p].op = "approve" /\ proc[p].res = "notfound"
    /\ mem[proc[p].t].status = "active"
    /\ mem[proc[p].t].approvedBy = proc[p].a
    /\ proc[p].a # proc[p].t
    /\ group.memberCount = 2

\* C10: a ban of an active non-creator member followed by the unban of that
\* member leaves the status active, the ban fields cleared and memberCount at
\* the value it had before the ban, whatever that value was.
C10_BanUnbanRoundTrip ==
  \A p \in Procs :
    (/\ proc[p].pc = "done" /\ proc[p].op = "unban" /\ proc[p].res = "ok"
     /\ rt.user = proc[p].t /\ rt.by = p) =>
       /\ mem[proc[p].t].status = "active"
       /\ ~mem[proc[p].t].bannedAt
       /\ mem[proc[p].t].bannedBy = "null"
       /\ mem[proc[p].t].banReason = "null"
       /\ group.memberCount = rt.base

\* ============================================================ role properties
\* the scope of record r is the queried scope or one that encloses it: the
\* platform encloses every scope, a community encloses its groups
Covers(r, cid, gid) ==
  \/ r.cid = "null" /\ r.gid = "null"
  \/ r.gid # "null" /\ r.gid = gid
  \/ /\ r.gid = "null" /\ r.cid # "null"
     /\ \/ r.cid = cid
        \/ gid = GroupId /\ r.cid = GroupCommunity

HoldsAdmin(u) ==
  \E r \in roles : r.user = u /\ r.role = "admin" /\ r.active
                   /\ r.cid = "null" /\ r.gid = "null"

\* the user holds an active record whose scope is the queried scope or one
\* enclosing it and whose permissions contain the token
HoldsCovering(u, perm, cid, gid) ==
  \E r \in roles : r.user = u /\ r.active /\ perm \in r.perms /\ Covers(r, cid, gid)

\* C5: userHasPermission answers true only when the user holds an active
\* platform admin record or an active record whose scope is the queried scope
\* or one enclosing it and whose permissions contain the token, and it answers
\* true whenever the user holds such a record; a record of another community
\* or group never satisfies the query. (That an admin record yields true for
\* every token is the statement of C6.)
C5_PermissionIffCoveringRecord ==
  answer.kind = "perm" =>
    /\ answer.result =>
         \/ HoldsAdmin(answer.user)
         \/ HoldsCovering(answer.user, answer.what, answer.cid, answer.gid)
    /\ HoldsCovering(answer.user, answer.what, answer.cid, answer.gid) => answer.result

OnlyExpert(u, e) ==
  /\ e \in roles /\ e.user = u /\ e.role = "expert" /\ e.active
  /\ \A r \in roles : r.user = u => r = e

\* C7: for a user whose only role record is an expert record, the
\* mark_best_answer check and markBestAnswer refuse while the record is pending
\* or rejected, and grant once it is verified.
C7_UnverifiedExpertRefused ==
  \A e \in roles :
    (/\ answer.kind \in {"perm", "mark"} /\ answer.what = "mark_best_answer"
     /\ answer.cid = "null" /\ answer.gid = "null"
     /\ OnlyExpert(answer.user, e)) =>
       (answer.result <=> e.vstatus = "verified")

ActiveRoles == {r \in roles : r.active}

\* C8: a record with isActive false is ignored by every authorization check:
\* userHasPermission, requireRole and permitScoped answer as they would if the
\* deactivated records were not in the store.
C8_InactiveRecordsIgnored ==
  /\ answer.kind = "perm" =>
       answer.result = userHasPermission(ActiveRoles, answer.user, answer.what,
                                         answer.cid, answer.gid)
  /\ answer.kind = "role" =>
       answer.result = requireRole(ActiveRoles, answer.user, {answer.what})
  /\ answer.kind = "scoped" =>
       answer.result = permitScoped(ActiveRoles, answer.user, answer.what, answer.cid)

\* ================================================== lifecycle transitions
\* C11: a leaveGroup by an active member who is not the creator, once answered
\* ok, has set the membership's status to left with leftAt set and has
\* decreased the group's memberCount by exactly 1.
C11_LeaveDecrements ==
  \A p \in Procs :
    (proc[p].pc = "done" /\ proc[p].op = "leave" /\ proc[p].res = "ok") =>
      /\ mem[proc[p].a].status = "left"
      /\ mem[proc[p].a].leftAt
      /\ proc[p].adj = -1

\* C12: a join by a user with no record, or a re-join by a user whose record is
\* left, makes the record active with approvedAt and approvedBy set to the user
\* and memberCount increased by 1 exactly when the group type the request
\* loaded is Public; otherwise the record is pending with approvedAt and
\* approvedBy cleared and memberCount unchanged.
C12_JoinFollowsType ==
  [][\A p \in Procs :
       /\ (/\ proc[p].pc \in {"join_insert", "join_saveRejoin"}
           /\ proc'[p].pc # proc[p].pc
           /\ proc'[p].res # "error") =>
            IF proc[p].gtype = "Public"
            THEN /\ mem'[proc[p].a].status = "active"
                 /\ mem'[proc[p].a].approvedAt
                 /\ mem'[proc[p].a].approvedBy = proc[p].a
                 /\ proc'[p].pc = "saveGroup"
            ELSE /\ mem'[proc[p].a].status = "pending"
                 /\ ~mem'[proc[p].a].approvedAt
                 /\ mem'[proc[p].a].approvedBy = "null"
                 /\ group' = group
                 /\ proc'[p].pc = "done" /\ proc'[p].res = "ok"
       /\ (proc[p].op = "join" /\ proc[p].pc = "saveGroup" /\ proc'[p].pc # proc[p].pc) =>
            group'.memberCount = group.memberCount + 1]_vars

\* a join into the group, now Private, has been answered with a pending
\* record, while another member had joined it, self-approved, when it was Public
C12_Witness ==
  \E p \in Procs :
    /\ proc[p].pc = "done" /\ proc[p].op = "join" /\ proc[p].res = "ok"
    /\ group.type = "Private"
    /\ mem[proc[p].a].status = "pending"
    /\ \E v \in Users \ {proc[p].a, group.createdBy} :
         mem[v].status = "active" /\ mem[v].approvedBy = v

\* the steps of a request before its first store write
PreWrite ==
  {"join_findGroup", "join_findMember", "join_insert",
   "leave_mw", "leave_findGroup", "leave_findMember", "leave_save",
   "approve_mw", "approve_findGroup", "approve_findAdmin", "approve_findMember",
   "approve_save",
   "reject_mw", "reject_findGroup", "reject_findAdmin", "reject_findMember",
   "reject_delete",
   "ban_perm", "ban_findMod", "ban_findMember", "ban_findGroup", "ban_save",
   "unban_perm", "unban_findMod", "unban_findMember", "unban_save"}

\* the event of request p is not listed for the status of the record it is about
Unlisted(p) ==
  LET st == mem[proc[p].t].status IN
  \/ proc[p].op = "ban" /\ st \in {"pending", "left", "banned"}
  \/ proc[p].op = "unban" /\ st # "banned"
  \/ proc[p].op \in {"approve", "reject"} /\ st # "pending"
  \/ proc[p].op = "leave" /\ st \in {"pending", "left", "banned"}
  \/ proc[p].op = "join" /\ st \in {"active", "pending", "banned"}

\* C13: a lifecycle event requested from a status that does not list it is
\* refused with an error: no step of the request changes a membership record or
\* the group, and the request is never answered ok.
C13_UnlistedEventRefused ==
  [][\A p \in Procs :
       (proc[p].pc \in PreWrite /\ Unlisted(p) /\ proc'[p].pc # proc[p].pc) =>
         /\ mem' = mem
         /\ group' = group
         /\ proc'[p].pc \in PreWrite \cup {"done"}
         /\ proc'[p].pc = "done" => proc'[p].res # "ok"]_vars

\* a join by a banned user has been refused by the unique index, and a leave by
\* a pending user has been refused, with the records as they were
C13_Witness ==
  \E p \in Procs :
    /\ proc[p].pc = "done"
    /\ \/ proc[p].op = "join" /\ proc[p].res = "error" /\ mem[proc[p].a].status = "banned"
       \/ proc[p].op = "leave" /\ proc[p].res = "forbidden"
          /\ mem[proc[p].a].status = "pending"
    /\ \E v \in Users : mem[v].status = "banned"
    /\ \E v \in Users : mem[v].status = "pending"

\* ============================================ moderation with role records
\* Ban and unban requests on a group of community GroupCommunity, handled one
\* after the other. u2 holds no role record, or the moderator record assignRole
\* creates, or the expert record approveApplication creates for a community,
\* with the permission list updatePermissions has stored in it.
BanRecords ==
  {{}, {NewRole("u2", "moderator", "null", {}, "pending")}}
    \cup {{[NewRole("u2", "expert", cid, {}, "verified") EXCEPT !.perms = {"ban_users"}]} :
             cid \in Communities}

InitMod ==
  /\ group = [NewGroup("u1", "Public") EXCEPT !.memberCount = 3]
  /\ mem = [u \in Users |-> IF u = "u1" THEN NewMembership("active", "admin", u)
                            ELSE NewMembership("active", "member", u)]
  /\ roles \in BanRecords
  /\ proc = [p \in Procs |-> Idle]
  /\ tally = NoTally
  /\ rt = NoRoundTrip
  /\ answer = NoAnswer
  /\ application = NoApplication
  /\ community = NoCommunity

NextMod ==
  \/ \E p \in Procs, u, target \in Users : AllIdle /\ BeginBan(p, u, target)
  \/ \E p \in Procs, u, target \in Users : AllIdle /\ BeginUnban(p, u, target)
  \/ \E p \in Procs : StepsBan(p) \/ StepsUnban(p) \/ SaveGroup(p) \/ Return(p)

SpecMod == InitMod /\ [][NextMod]_vars

\* the actor may moderate the group: a covering ban_users record (platform-wide
\* or of the group's community), or an active admin or moderator membership
MayModerate(u) ==
  \/ HoldsCovering(u, "ban_users", GroupCommunity, GroupId)
  \/ mem[u].status = "active" /\ mem[u].role \in {"admin", "moderator"}

\* C14: a ban or unban request of an actor who neither is granted ban_users for
\* the group (globally or through its community) nor is an active admin or
\* moderator of the group is refused, and none of its steps changes a
\* membership record or the group.
C14_OnlyModeratorsBan ==
  [][\A p \in Procs :
       (/\ proc[p].op \in {"ban", "unban"}
        /\ proc[p].pc \notin {"idle", "done"}
        /\ proc'[p].pc # proc[p].pc
        /\ ~MayModerate(proc[p].a)) =>
         /\ mem' = mem
         /\ group' = group
         /\ proc'[p].pc = "done" => proc'[p].res # "ok"]_vars

\* ===================================================== canUserPostInGroup
\* the collection whose query fails with a store error, if any
Stores == {"none", "roles", "memberships", "groups"}

\* a group id no Group document has
MissingGroup == "g0"

\* RoleAggregationService.canUserPostInGroup(userId, groupId): the admin query,
\* the membership query, Group.findById, the community role query; whatever
\* throws is caught and answered false
canUserPostInGroup(rs, m, exists, u, down) ==
  IF down = "roles" THEN FALSE
  ELSE IF \E r \in rs : r.user = u /\ r.role = "admin" /\ r.active THEN TRUE
  ELSE IF down = "memberships" THEN FALSE
  ELSE IF m.status = "active" THEN TRUE
  ELSE IF down = "groups" THEN FALSE
  ELSE IF ~exists THEN FALSE
  ELSE \E r \in rs : /\ r.user = u /\ r.role \in {"moderator", "expert"}
                     /\ r.cid = GroupCommunity /\ r.active

\* the membership record of u the query for group gid finds
MembershipIn(gid, u) == IF gid = GroupId THEN mem[u] ELSE NoMem

CheckCanPost(u, gid, down) ==
  /\ answer = NoAnswer
  /\ answer' = [kind |-> "post", user |-> u, what |-> down, cid |-> "null", gid |-> gid,
                result |-> canUserPostInGroup(roles, MembershipIn(gid, u),
                                              gid = GroupId /\ group # NoGroup, u, down)]
  /\ UNCHANGED <<group, mem, roles, proc, tally, rt, application, community>>

\* u1, platform admin, created the group; u2 has joined it or not; u3 has not
InitPost ==
  /\ \E joined \in BOOLEAN :
       /\ group = [NewGroup("u1", "Public") EXCEPT !.memberCount = IF joined THEN 2 ELSE 1]
       /\ mem = [u \in Users |->
                  IF u = "u1" THEN NewMembership("active", "admin", u)
                  ELSE IF u = "u2" /\ joined THEN NewMembership("active", "member", u)
                  ELSE NoMem]
  /\ roles = {NewRole("u1", "admin", "null", {}, "pending")}
  /\ proc = [p \in Procs |-> Idle]
  /\ tally = NoTally
  /\ rt = NoRoundTrip
  /\ answer = NoAnswer
  /\ application = NoApplication
  /\ community = NoCommunity

\* ------------------------------------------- the gates under a store error
\* Each middleware answers "next" (the next handler is called), "denied"
\* (401/403) or "error" (its catch block: 500), given the collection whose
\* query fails with a store error (down).

\* requirePermission(permission)
requirePermission(rs, u, perm, down) ==
  IF down = "roles" THEN "error"
  ELSE IF userHasPermission(rs, u, perm, "null", "null") THEN "next"
  ELSE "denied"

\* requireRole(roles)
requireRoleGate(rs, u, wanted, down) ==
  IF down = "roles" THEN "error"
  ELSE IF requireRole(rs, u, wanted) THEN "next"
  ELSE "denied"

\* requireGroupMembership(membershipStatus, roles)
requireGroupMembershipGate(m, statuses, rls, down) ==
  IF down = "memberships" THEN "error"
  ELSE IF requireGroupMembership(m, statuses, rls) THEN "next"
  ELSE "denied"

\* canModeratePost: the permission query, then the membership query; it calls
\* next() with req.canModerate false when neither grants
canModeratePostFailOpen(rs, m, u, down) == "next"
canModeratePost(rs, m, u, down) ==
  IF down = "roles" THEN "error"
  ELSE IF userHasPermission(rs, u, "moderate_posts", "null", "null") THEN "next"
  ELSE IF down = "memberships" THEN "error"
  ELSE "next"

\* adminAuth(permission) on a route with :communityId
adminAuth(rs, u, perm, cid, down) ==
  IF down = "roles" THEN "error"
  ELSE IF userHasPermission(rs, u, perm, cid, "null") THEN "next"
  ELSE "denied"

\* permitScoped(requiredRole, communityParam)
permitScopedGate(rs, u, requiredRole, cid, down) ==
  IF down = "roles" THEN "error"
  ELSE IF permitScoped(rs, u, requiredRole, cid) THEN "next"
  ELSE "denied"

Gates ==
  {"requirePermission", "requireRole", "requireGroupMembership", "canModeratePost",
   "adminAuth", "permitScoped"}

GateOutcome(gate, u, down) ==
  CASE gate = "requirePermission" -> requirePermission(roles, u, "moderate_posts", down)
    [] gate = "requireRole" -> requireRoleGate(roles, u, {"admin"}, down)
    [] gate = "requireGroupMembership" ->
         requireGroupMembershipGate(mem[u], {"active"}, {}, down)
    [] gate = "canModeratePost" -> canModeratePost(roles, mem[u], u, down)
    [] gate = "adminAuth" -> adminAuth(roles, u, "approve_experts", GroupCommunity, down)
    [] gate = "permitScoped" -> permitScopedGate(roles, u, "expert", GroupCommunity, down)

\* a request of u reaches the gate on a route of the group; result: the next
\* handler was called
CheckGate(gate, u, down) ==
  /\ answer = NoAnswer
  /\ answer' = [kind |-> gate, user |-> u, what |-> down, cid |-> GroupCommunity,
                gid |-> GroupId, result |-> GateOutcome(gate, u, down) = "next"]
  /\ UNCHANGED <<group, mem, roles, proc, tally, rt, application, community>>

\* ------------------------------------- expert requests of the communities
\* requestExpertStatus in community cid by a user whose entry in its experts
\* list is neither pending nor approved: findOne({userId, role: 'expert'}), any
\* scope; the record found is set to pending, or a record without scope is
\* inserted
RequestExpertStatus(u, cid) ==
  /\ answer = NoAnswer
  /\ IF \E r \in roles : r.user = u /\ r.role = "expert"
     THEN \E r \in roles :
            /\ r.user = u /\ r.role = "expert" /\ r.vstatus # "pending"
            /\ roles' = (roles \ {r}) \cup {[r EXCEPT !.vstatus = "pending"]}
     ELSE /\ Cardinality(roles) < MaxRoles
          /\ roles' = InsertRole(roles, NewRole(u, "expert", "null", {}, "pending"))
  /\ UNCHANGED <<group, mem, proc, tally, rt, answer, application, community>>

\* approveExpertRequest / rejectExpertRequest for community cid, by a caller
\* holding approve_experts: the entry of the experts list, if any, is marked;
\* then findOne({userId, role: 'expert'}), any scope, and verify() / reject()
ApproveExpertRequest(u, cid) ==
  /\ answer = NoAnswer
  /\ \E a \in Users : userHasPermission(roles, a, "approve_experts", "null", "null")
  /\ \E r \in roles :
       /\ r.user = u /\ r.role = "expert" /\ r.vstatus # "verified"
       /\ roles' = (roles \ {r}) \cup {[r EXCEPT !.vstatus = "verified"]}
  /\ UNCHANGED <<group, mem, proc, tally, rt, answer, application, community>>

RejectExpertRequest(u, cid) ==
  /\ answer = NoAnswer
  /\ \E a \in Users : userHasPermission(roles, a, "approve_experts", "null", "null")
  /\ \E r \in roles :
       /\ r.user = u /\ r.role = "expert" /\ r.vstatus # "rejected"
       /\ roles' = (roles \ {r}) \cup {[r EXCEPT !.vstatus = "rejected"]}
  /\ UNCHANGED <<group, mem, proc, tally, rt, answer, application, community>>

\* ------------------------------------------ PUT and DELETE of the group
\* isGroupAdmin: group.admins holds the creator, pushed by pre('save') of a new
\* group; no handler adds another admin
isGroupAdmin(g, u) == g.createdBy = u

\* the route of updateGroup or deleteGroup up to the handler's access test:
\* isGroupAdmin, then creator or platform admin (deleteGroup's admin query has
\* no communityId filter)
GroupRoute(route, g, rs, u) ==
  IF ~g.exists THEN "notfound"
  ELSE IF ~isGroupAdmin(g, u) THEN "forbidden"
  ELSE IF g.createdBy = u THEN "pass"
  ELSE IF \E r \in rs : /\ r.user = u /\ r.role = "admin" /\ r.active
                        /\ route = "updateGroup" => r.cid = "null"
  THEN "pass"
  ELSE "forbidden"

\* groupSchema.status enum
GroupStatuses == {"active", "inactive", "archived"}

\* updateGroup, with its response
updateGroup(u, ty) ==
  LET route == GroupRoute("updateGroup", group, roles, u) IN
  /\ answer = NoAnswer
  /\ answer' = [kind |-> "updateGroup", user |-> u,
                what |-> IF route = "pass" THEN "ok" ELSE route,
                cid |-> GroupCommunity, gid |-> GroupId, result |-> route = "pass"]
  /\ group' = IF route = "pass" THEN [group EXCEPT !.type = ty] ELSE group
  /\ UNCHANGED <<mem, roles, proc, tally, rt, application, community>>

\* deleteGroup: status = 'deleted' and save(), which validates the document
\* against the schema; then the community's groupCount
deleteGroup(u) ==
  LET route == GroupRoute("deleteGroup", group, roles, u)
      doc == [group EXCEPT !.status = "deleted"]
      saved == route = "pass" /\ doc.status \in GroupStatuses
  IN
  /\ answer = NoAnswer
  /\ answer' = [kind |-> "deleteGroup", user |-> u,
                what |-> IF route # "pass" THEN route ELSE IF saved THEN "ok" ELSE "error",
                cid |-> GroupCommunity, gid |-> GroupId, result |-> saved]
  /\ group' = IF saved THEN doc ELSE group
  /\ community' = IF saved THEN [community EXCEPT !.groupCount = Max0(@ - 1)] ELSE community
  /\ UNCHANGED <<mem, roles, proc, tally, rt, application>>

NextPost ==
  \/ \E u \in RoleUsers, role \in RoleKinds, given \in GivenPermissions : AssignRole(u, role, given)
  \/ \E u \in RoleUsers, role \in RoleKinds : RemoveRole(u, role)
  \/ \E u \in RoleUsers : VerifyExpert(u)
  \/ \E u \in RoleUsers : RejectExpert(u)
  \/ \E u \in RoleUsers, cid \in Communities : ApproveApplication(u, cid)
  \/ \E u \in Users, gid \in {GroupId, MissingGroup}, down \in Stores : CheckCanPost(u, gid, down)
  \/ \E gate \in Gates, u \in Users, down \in Stores : CheckGate(gate, u, down)
  \/ \E u \in Users, ty \in Types : updateGroup(u, ty)
  \/ \E u \in Users : deleteGroup(u)
  \/ \E u \in RoleUsers, cid \in Communities : RequestExpertStatus(u, cid)
  \/ \E u \in RoleUsers, cid \in Communities : ApproveExpertRequest(u, cid)
  \/ \E u \in RoleUsers, cid \in Communities : RejectExpertRequest(u, cid)
  \/ Answered

SpecPost == InitPost /\ [][NextPost]_vars

\* the user holds an active moderator record, or an active and verified expert
\* record, of the group's parent community
HoldsCommunityRole(u) ==
  \E r \in roles : /\ r.user = u /\ r.active /\ r.cid = GroupCommunity
                   /\ \/ r.role = "moderator"
                      \/ r.role = "expert" /\ r.vstatus = "verified"

\* C15: with the store answering, canUserPostInGroup(user, group) is true
\* exactly when the user holds an active platform admin record, or an active
\* membership of the group, or an active moderator record or verified expert
\* record of the group's parent community.
C15_CanPostIff ==
  (answer.kind = "post" /\ answer.what = "none") =>
    (answer.result <=>
       \/ HoldsAdmin(answer.user)
       \/ MembershipIn(answer.gid, answer.user).status = "active"
       \/ answer.gid = GroupId /\ HoldsCommunityRole(answer.user))

\* C16: with the store answering, canUserPostInGroup is false for every user
\* when the group id names no group, and false for a user of an existing group
\* who has no membership record in it and holds no role record.
C16_MissingDataDenies ==
  (answer.kind = "post" /\ answer.what = "none") =>
    /\ answer.gid = MissingGroup => ~answer.result
    /\ (/\ answer.gid = GroupId
        /\ mem[answer.user].status = "none"
        /\ ~\E r \in roles : r.user = answer.user) => ~answer.result

\* ================================================= membership role migration
\* migrateGroupMembershipRoles: updateMany({role: 'admin'}, {$set: {role:
\* 'groupAdmin'}}); it returns before the update when no record has role admin
migrateGroupMembershipRoles ==
  /\ \E u \in Users : mem[u].role = "admin"
  /\ mem' = [u \in Users |-> IF mem[u].role = "admin"
                             THEN [mem[u] EXCEPT !.role = "groupAdmin"]
                             ELSE mem[u]]
  /\ UNCHANGED <<group, roles, proc, tally, rt, answer, application, community>>

\* the group requests handled one after the other, and the migration script
NextMigrate ==
  \/ NextSeq
  \/ AllIdle /\ migrateGroupMembershipRoles

SpecMigrate == Init /\ [][NextMigrate]_vars

\* C17: whenever the creator's membership is active its role is admin, and it
\* passes requireGroupAdmin and requireGroupModerator.
C17_CreatorIsAdmin ==
  (group # NoGroup /\ mem[group.createdBy].status = "active") =>
    /\ mem[group.createdBy].role = "admin"
    /\ requireGroupMembership(mem[group.createdBy], {"active"}, {"admin"})
    /\ requireGroupMembership(mem[group.createdBy], {"active"}, {"admin", "moderator"})

\* ================================================ role handlers, interleaved
\* The handlers that write role records, stepping at their awaits. A request
\* keeps the user id in a, the role in gtype, and in mu the communityId of the
\* record it loaded or is about to insert; glob tells whether it loaded one.
RoleRequest(o, u, role, first) ==
  [Idle EXCEPT !.pc = first, !.op = o, !.a = u, !.gtype = role]

StartRole(p, r) ==
  /\ proc[p].pc = "idle"
  /\ Set(p, r)
  /\ UNCHANGED <<group, mem, roles, tally, rt, answer, application, community>>

\* new UserRole(...).save(): the insert, refused by the unique index
SaveNewRole(p, r) ==
  LET stored == InsertRole(roles, r) IN
  /\ Cardinality(roles) < MaxRoles \/ \E o \in roles : RoleKey(o) = RoleKey(r)
  /\ roles' = stored
  /\ Respond(p, proc[p], IF stored = roles THEN "error" ELSE "ok")
  /\ UNCHANGED <<group, mem, tally, rt, answer, application, community>>

\* r is the document the request loaded
HeldRole(p, r) == RoleKey(r) = <<proc[p].a, proc[p].gtype, proc[p].mu, "null">>

BeginAssignRole(p, u, role) ==
  /\ AdminCaller
  /\ StartRole(p, RoleRequest("assignRole", u, role, "assign_find"))

\* findOne({userId, role, isActive: true})
AssignFind(p) ==
  /\ proc[p].pc = "assign_find"
  /\ IF \E r \in roles : r.user = proc[p].a /\ r.role = proc[p].gtype /\ r.active
     THEN Respond(p, proc[p], "already")
     ELSE Set(p, [proc[p] EXCEPT !.pc = "assign_save"])
  /\ UNCHANGED <<group, mem, roles, tally, rt, answer, application, community>>

AssignSave(p) ==
  /\ proc[p].pc = "assign_save"
  /\ SaveNewRole(p, NewRole(proc[p].a, proc[p].gtype, "null", {}, "pending"))

BeginRemoveRole(p, u, role) ==
  /\ AdminCaller
  /\ StartRole(p, RoleRequest("removeRole", u, role, "remove_find"))

\* findOne({userId, role, isActive: true})
RemoveFind(p) ==
  /\ proc[p].pc = "remove_find"
  /\ IF \E r \in roles : r.user = proc[p].a /\ r.role = proc[p].gtype /\ r.active
     THEN \E r \in roles :
            /\ r.user = proc[p].a /\ r.role = proc[p].gtype /\ r.active
            /\ Set(p, [proc[p] EXCEPT !.pc = "remove_save", !.mu = r.cid, !.glob = TRUE])
     ELSE Respond(p, proc[p], "notfound")
  /\ UNCHANGED <<group, mem, roles, tally, rt, answer, application, community>>

Deactivated(r) == [r EXCEPT !.active = FALSE]

\* save(): isActive is written to the loaded document
RemoveSave(p) ==
  /\ proc[p].pc = "remove_save"
  /\ roles' = {IF HeldRole(p, r) THEN Deactivated(r) ELSE r : r \in roles}
  /\ Respond(p, proc[p], "ok")
  /\ UNCHANGED <<group, mem, tally, rt, answer, application, community>>

\* requestExpertStatus of a user whose entry in community.experts is neither
\* pending nor approved
BeginRequestExpert(p, u) ==
  StartRole(p, RoleRequest("requestExpert", u, "expert", "request_find"))

\* findOne({userId, role: 'expert'}): any scope, active or not
RequestFind(p) ==
  /\ proc[p].pc = "request_find"
  /\ IF \E r \in roles : r.user = proc[p].a /\ r.role = "expert"
     THEN \E r \in roles :
            /\ r.user = proc[p].a /\ r.role = "expert"
            /\ Set(p, [proc[p] EXCEPT !.pc = "request_save", !.mu = r.cid, !.glob = TRUE])
     ELSE Set(p, [proc[p] EXCEPT !.pc = "request_save"])
  /\ UNCHANGED <<group, mem, roles, tally, rt, answer, application, community>>

PendingAgain(r) == [r EXCEPT !.vstatus = "pending"]

RequestSave(p) ==
  /\ proc[p].pc = "request_save"
  /\ IF proc[p].glob
     THEN /\ roles' = {IF HeldRole(p, r) THEN PendingAgain(r) ELSE r : r \in roles}
          /\ Respond(p, proc[p], "ok")
          /\ UNCHANGED <<group, mem, tally, rt, answer, application, community>>
     ELSE SaveNewRole(p, NewRole(proc[p].a, "expert", "null", {}, "pending"))

\* approveApplication of a pending application of u for community cid, by a
\* caller whom userHasPermission grants approve_experts there
BeginApproveApplication(p, u, cid) ==
  /\ \E a \in Users : userHasPermission(roles, a, "approve_experts", cid, "null")
  /\ StartRole(p, [RoleRequest("approveApplication", u, "expert", "application_save")
                     EXCEPT !.mu = cid])

ApplicationSave(p) ==
  /\ proc[p].pc = "application_save"
  /\ SaveNewRole(p, NewRole(proc[p].a, "expert", proc[p].mu, {}, "verified"))

StepsRole(p) ==
  \/ AssignFind(p) \/ AssignSave(p)
  \/ RemoveFind(p) \/ RemoveSave(p)
  \/ RequestFind(p) \/ RequestSave(p)
  \/ ApplicationSave(p)
  \/ Return(p)

\* the roles assigned and removed while requests overlap
RacedRoles == {"expert", "moderator"}

NextRoleRace ==
  \/ \E p \in Procs, u \in RoleUsers, role \in RacedRoles : BeginAssignRole(p, u, role)
  \/ \E p \in Procs, u \in RoleUsers, role \in RacedRoles : BeginRemoveRole(p, u, role)
  \/ \E p \in Procs, u \in RoleUsers : BeginRequestExpert(p, u)
  \/ \E p \in Procs, u \in RoleUsers, cid \in Communities : BeginApproveApplication(p, u, cid)
  \/ \E p \in Procs : StepsRole(p)
  \/ \E u \in RoleUsers : VerifyExpert(u)
  \/ \E u \in RoleUsers : RejectExpert(u)

SpecRoleRace == InitRole /\ [][NextRoleRace]_vars

\* C18: no two different active role records have the same
\* (user, role, communityId, groupId).
C18_OneActiveRecordPerTuple ==
  \A r1, r2 \in roles :
    (r1.active /\ r2.active /\ RoleKey(r1) = RoleKey(r2)) => r1 = r2

\* two requests have written a record for the same user: one was
\* stored, the other was refused by the unique index
C18_Witness ==
  \E p, q \in Procs :
    /\ proc[p].pc = "done" /\ proc[p].res = "ok"
    /\ proc[q].pc = "done" /\ proc[q].res = "error"
    /\ proc[p].op \in {"assignRole", "requestExpert", "approveApplication"}
    /\ proc[q].op \in {"assignRole", "requestExpert", "approveApplication"}
    /\ proc[p].a = proc[q].a
    /\ \E r \in roles : r.user = proc[p].a /\ r.active

\* ============================================ the two writes of a transition
\* group.save() is rejected with a store error: the handler's catch answers
\* 400; the membership written before it stays as saved
SaveGroupFails(p) ==
  /\ proc[p].pc = "saveGroup"
  /\ Respond(p, proc[p], "error")
  /\ UNCHANGED <<group, mem, roles, tally, rt, answer, application, community>>

\* joins, decisions on them, bans and unbans, interleaved at their awaits, with
\* a store that may reject the counter write
NextAtomic ==
  \/ \E p \in Procs, u \in Creators, ty \in Types : BeginCreateGroup(p, u, ty)
  \/ \E p \in Procs, u \in Moderated : BeginJoin(p, u)
  \/ \E p \in Procs, u \in Creators, target \in Moderated : BeginApprove(p, u, target)
  \/ \E p \in Procs, u \in Creators, target \in Moderated : BeginBan(p, u, target)
  \/ \E p \in Procs, u \in Creators, target \in Moderated : BeginUnban(p, u, target)
  \/ \E p \in Procs : StepsJoin(p) \/ StepsBan(p) \/ StepsUnban(p)
  \/ \E p \in Procs : \/ ApproveMiddleware(p) \/ ApproveFindGroup(p) \/ ApproveFindAdmin(p)
                       \/ ApproveFindMember(p) \/ ApproveSave(p)
  \/ \E p \in Procs : SaveGroupFails(p)

SpecAtomic == Init /\ [][NextAtomic]_vars

\* the request has saved the membership with its new status and has not yet
\* saved the counter
HalfDone(p) ==
  /\ proc[p].op \in {"join", "approve", "ban", "unban"}
  /\ proc[p].pc \in {"saveGroup", "unban_findGroup"}

\* C19: the status write and the counter write of a transition are committed
\* together: while a request stands between the two, no other request runs
\* against the store, and the request does not end without the counter write.
C19_CommittedTogether ==
  [][\A p \in Procs :
       HalfDone(p) =>
         /\ \A q \in Procs \ {p} : proc'[q] = proc[q]
         /\ proc'[p].pc = "done" => /\ proc[p].pc = "saveGroup"
                                    /\ group'.memberCount = proc[p].newCount]_vars

\* the check of the answer queried the collection that was failing
LoadFailed ==
  LET u == answer.user
      admin == \E r \in roles : r.user = u /\ r.role = "admin" /\ r.active
      member == MembershipIn(answer.gid, u).status = "active"
  IN
  CASE answer.kind \in {"requirePermission", "requireRole", "adminAuth", "permitScoped"} ->
         answer.what = "roles"
    [] answer.kind = "requireGroupMembership" -> answer.what = "memberships"
    [] answer.kind = "canModeratePost" ->
         \/ answer.what = "roles"
         \/ /\ answer.what = "memberships"
            /\ ~userHasPermission(roles, u, "moderate_posts", "null", "null")
    [] answer.kind = "post" ->
         \/ answer.what = "roles"
         \/ answer.what = "memberships" /\ ~admin
         \/ answer.what = "groups" /\ ~admin /\ ~member
    [] OTHER -> FALSE

\* C20: when a check's query for role or membership records fails with a store
\* error, the check does not allow: the middleware does not call the next
\* handler, and canUserPostInGroup returns false.
C20_StoreErrorDenies ==
  LoadFailed => ~answer.result

\* the membership query failed for an active member of the group, who was
\* not let through
C20_Witness ==
  /\ answer.kind \in {"requireGroupMembership", "canModeratePost"}
  /\ answer.what = "memberships"
  /\ mem[answer.user].status = "active"
  /\ LoadFailed
  /\ ~answer.result

\* C21: a permission list supplied to assignRole or to updatePermissions is the
\* permission set stored in the record the call writes.
C21_OverrideKept ==
  [][\A u \in RoleUsers, role \in RoleKinds, given \in GivenPermissions :
       (given # {} /\ (AssignRole(u, role, given) \/ UpdatePermissions(u, role, given))) =>
         \E r \in roles' : r.user = u /\ r.role = role /\ r.active /\ r.perms = given]_vars

\* ==================================================== getUserRolesInGroup
Tag(type, priority, source) == [type |-> type, priority |-> priority, source |-> source]

\* roles.sort((a, b) => a.priority - b.priority): a stable sort, tags of equal
\* priority keep the order in which they were pushed
RECURSIVE SortByPriority(_)
SortByPriority(tags) ==
  IF tags = <<>> THEN <<>>
  ELSE LET least == CHOOSE i \in 1..Len(tags) :
                      /\ \A j \in 1..Len(tags) : tags[i].priority <= tags[j].priority
                      /\ \A j \in 1..(i - 1) : tags[j].priority > tags[i].priority
       IN <<tags[least]>> \o
          SortByPriority([k \in 1..(Len(tags) - 1) |-> IF k < least THEN tags[k] ELSE tags[k + 1]])

\* RoleAggregationService.getUserRolesInGroup(userId, groupId), for the group
\* of community GroupCommunity; m is the user's membership record in it
getUserRolesInGroup(rs, m, u) ==
  IF \E r \in rs : r.user = u /\ r.role = "admin" /\ r.cid = "null" /\ r.active
  THEN <<Tag("admin", 1, "platform")>>
  ELSE LET inGroup ==
             IF m.status = "active" /\ m.role \in {"groupAdmin", "admin"}
             THEN <<Tag("groupAdmin", 2, "group")>>
             ELSE IF m.status = "active" /\ m.role = "moderator"
             THEN <<Tag("moderator", 3, "group")>>
             ELSE <<>>
           communityModerator ==
             IF \E r \in rs : /\ r.user = u /\ r.role = "moderator"
                              /\ r.cid = GroupCommunity /\ r.active
             THEN <<Tag("moderator", 3, "community")>>
             ELSE <<>>
           communityExpert ==
             IF \E r \in rs : /\ r.user = u /\ r.role = "expert"
                              /\ r.cid = GroupCommunity /\ r.active
             THEN <<Tag("expert", 4, "community")>>
             ELSE <<>>
       IN SortByPriority(inGroup \o communityModerator \o communityExpert)

\* the role tags of u are asked for; result: some tag was returned
CheckUserRoles(u) ==
  /\ answer = NoAnswer
  /\ answer' = [kind |-> "tags", user |-> u, what |-> "null", cid |-> GroupCommunity,
                gid |-> GroupId, result |-> getUserRolesInGroup(roles, mem[u], u) # <<>>]
  /\ UNCHANGED <<group, mem, roles, proc, tally, rt, application, community>>

\* role records the schema admits for u2: platform admin, and moderator and
\* expert of a community
TagRecords ==
  {NewRole("u2", "admin", "null", {}, "pending")}
    \cup {NewRole("u2", "moderator", cid, {}, "pending") : cid \in Communities}
    \cup {NewRole("u2", "expert", cid, {}, "verified") : cid \in Communities}

\* the group of u1 with u2 and u3 as active members; u2's membership role and
\* role records are drawn from what the schemas admit
InitTags ==
  /\ group = [NewGroup("u1", "Public") EXCEPT !.memberCount = 3]
  /\ \E rl \in {"member", "moderator", "admin"} :
       mem = [u \in Users |-> IF u = "u1" THEN NewMembership("active", "admin", u)
                              ELSE IF u = "u2" THEN NewMembership("active", rl, u)
                              ELSE NewMembership("active", "member", u)]
  /\ roles \in SUBSET TagRecords
  /\ proc = [p \in Procs |-> Idle]
  /\ tally = NoTally
  /\ rt = NoRoundTrip
  /\ answer = NoAnswer
  /\ application = NoApplication
  /\ community = NoCommunity

NextTags ==
  \/ \E u \in Users : CheckUserRoles(u)
  \/ Answered

SpecTags == InitTags /\ [][NextTags]_vars

\* the rank of a tag in the precedence PlatformAdmin, then GroupAdmin and
\* CommunityModerator, then GroupModerator, then CommunityExpert
Precedence(tag) ==
  CASE tag.type = "admin" -> 1
    [] tag.type = "groupAdmin" -> 2
    [] tag.type = "moderator" /\ tag.source = "community" -> 2
    [] tag.type = "moderator" /\ tag.source = "group" -> 3
    [] OTHER -> 4

C23_OtherCommunitiesKept ==
  [][\A u \in RoleUsers, cid \in Communities :
       (\/ RequestExpertStatus(u, cid)
        \/ ApproveExpertRequest(u, cid)
        \/ RejectExpertRequest(u, cid)) =>
         \A r \in roles : (r.role = "expert" /\ r.cid \notin {cid, "null"}) => r \in roles']_vars

\* C24: a request to update or delete the group is let through exactly for the
\* group's creator and for a user with an active platform admin record.
C24_CreatorOrPlatformAdmin ==
  answer.kind \in {"updateGroup", "deleteGroup"} =>
    (answer.what # "forbidden" <=>
       (group.createdBy = answer.user \/ HoldsAdmin(answer.user)))

\* C25: deleteGroup by the creator leaves the group stored with status deleted
\* and the community's groupCount one lower, never below 0.
C25_CreatorSoftDeletes ==
  [][\A u \in Users :
       (deleteGroup(u) /\ u = group.createdBy) =>
         /\ group'.status = "deleted"
         /\ community'.groupCount = Max0(community.groupCount - 1)]_vars

\* C26: whenever a user holds no active record of a role (never granted, or
\* revoked by removeRole), the insert assignRole makes for that user and role
\* stores an active record of the role.
C26_RevokedRoleGrantable ==
  \A u \in RoleUsers, role \in RoleKinds :
    (~\E r \in roles : r.user = u /\ r.role = role /\ r.active) =>
      \E r \in InsertRole(roles, NewRole(u, role, "null", {}, "pending")) :
        r.user = u /\ r.role = role /\ r.active

\* C27: while a membership is banned, no step of a joinGroup request of that
\* user changes a membership record or the group, the request is not answered
\* ok, and the only step that takes the record out of banned is the save of
\* unbanUserFromGroup for that user.
C27_BannedStaysBanned ==
  [][\A u \in Users :
       mem[u].status = "banned" =>
         /\ \A p \in Procs :
              (proc[p].op = "join" /\ proc[p].a = u /\ proc'[p].pc # proc[p].pc
                 /\ proc[p].pc \notin {"idle", "done"}) =>
                /\ mem' = mem
                /\ group' = group
                /\ proc'[p].pc = "done" => proc'[p].res # "ok"
         /\ mem'[u].status # "banned" =>
              \E p \in Procs : /\ proc[p].op = "unban" /\ proc[p].t = u
                               /\ proc[p].pc = "unban_save"
                               /\ proc'[p].pc # proc[p].pc]_vars

\* a banned user's join has been refused and the ban stands
C27_Witness ==
  \E p \in Procs :
    /\ proc[p].pc = "done" /\ proc[p].op = "join" /\ proc[p].res = "error"
    /\ mem[proc[p].a].status = "banned"
    /\ mem[proc[p].a].bannedAt
    /\ mem[proc[p].a].bannedBy = group.createdBy

\* C28: in every reachable state, with requests handled one after the other or
\* interleaved at their awaits, the stored memberCount is an integer and is at
\* least 0.
C28_CountNeverNegative ==
  /\ group.memberCount \in Int
  /\ group.memberCount >= 0

\* a ban that loaded the group with memberCount 0 has saved it: the clamp acted
C28_Witness ==
  \E p \in Procs :
    /\ proc[p].op = "ban" /\ proc[p].pc = "done" /\ proc[p].res = "ok"
    /\ proc[p].newCount = 0 /\ proc[p].adj = 0
    /\ group.memberCount = 0

\* ------------------------------------------- getGroupById, getGroupsByCommunity
\* The two read handlers: the group document is loaded, the active membership
\* records are counted, and the count replaces memberCount in the object sent.
\* No group of the model is Secret, so the access check of getGroupById passes.
ReadRoutes == {"getGroupById", "getGroupsByCommunity"}

BeginRead(p, u, route) ==
  Start(p, Request(route, u, "null", "read_find"))

\* Group.findById / Group.find: a missing group is 404 for getGroupById and an
\* empty list for getGroupsByCommunity
ReadFind(p) ==
  /\ proc[p].pc = "read_find"
  /\ IF group.exists
     THEN Set(p, [proc[p] EXCEPT !.pc = "read_count", !.gcount = group.memberCount,
                                 !.gtype = group.type])
     ELSE Respond(p, proc[p], IF proc[p].op = "getGroupById" THEN "notfound" ELSE "empty")
  /\ UNCHANGED <<group, mem, roles, tally, rt, answer, application, community>>

\* groupObj = group.toObject(); groupObj.memberCount = memberCount
ReportedCountStored(stored, counted) == stored
ReportedCount(stored, counted) == counted

\* GroupMembership.countDocuments({groupId, status: 'active'}); the object is
\* sent, and the request parks with the memberCount it sent in gcount
ReadCount(p) ==
  /\ proc[p].pc = "read_count"
  /\ Set(p, [Parked(proc[p], "ok") EXCEPT
               !.gcount = ReportedCount(proc[p].gcount, ActiveCount),
               !.gtype = proc[p].gtype])
  /\ UNCHANGED <<group, mem, roles, tally, rt, answer, application, community>>

\* reads interleaved with join, ban and unban requests
NextRead ==
  \/ \E p \in Procs, u \in Creators, ty \in Types : BeginCreateGroup(p, u, ty)
  \/ \E p \in Procs, u \in Users : BeginJoin(p, u)
  \/ \E p \in Procs, u \in Creators, target \in Moderated : BeginBan(p, u, target)
  \/ \E p \in Procs, u \in Creators, target \in Moderated : BeginUnban(p, u, target)
  \/ \E p \in Procs, u \in Users, route \in ReadRoutes : BeginRead(p, u, route)
  \/ \E p \in Procs : StepsJoin(p) \/ StepsBan(p) \/ StepsUnban(p)
  \/ \E p \in Procs : ReadFind(p) \/ ReadCount(p)

SpecRead == Init /\ [][NextRead]_vars

\* C29: the memberCount that getGroupById and getGroupsByCommunity send for a
\* group is the number of its membership records that are active when the
\* handler counts them, whatever the stored memberCount is.
C29_CountIsActiveRecords ==
  [][\A p \in Procs :
       (proc[p].pc = "read_count" /\ proc'[p].pc = "done") =>
         /\ proc'[p].res = "ok"
         /\ proc'[p].gcount = Cardinality({u \in Users : mem[u].status = "active"})]_vars

\* a read has sent a memberCount that differs from the stored counter it loaded
C29_Witness ==
  \E p \in Procs :
    /\ proc[p].op \in ReadRoutes /\ proc[p].pc = "done" /\ proc[p].res = "ok"
    /\ Quiet
    /\ proc[p].gcount = ActiveCount
    /\ proc[p].gcount # group.memberCount

\* ---------------------------------------- approveApplication, rejectApplication
\* The review of the expert application, its handlers interleaved at their
\* awaits. The experts list of the community document is left out.

\* req.body.expertiseAreas: every entry is in the enum of userRoleSchema, or not
ExpertiseAreas == {"listed", "unlisted"}

\* submitApplication: refused when the user has an application for the
\* community or is an expert there; the new document is pending
submitApplication(u, cid) ==
  /\ application.status = "none"
  /\ ~\E r \in roles : r.user = u /\ r.cid = cid /\ r.active /\ r.role = "expert"
  /\ application' = [status |-> "pending", user |-> u, cid |-> cid]
  /\ UNCHANGED <<group, mem, roles, proc, tally, rt, answer, community>>

BeginReview(p, a, route, areas) ==
  StartRole(p, [Idle EXCEPT !.pc = "review_find", !.op = route, !.a = a, !.body = areas])

\* ExpertApplication.findById
ReviewFind(p) ==
  /\ proc[p].pc = "review_find"
  /\ IF application.status = "none"
     THEN Respond(p, proc[p], "notfound")
     ELSE Set(p, [proc[p] EXCEPT !.pc = "review_perm", !.ms = application.status])
  /\ UNCHANGED <<group, mem, roles, tally, rt, answer, application, community>>

\* userHasPermission(caller, 'approve_experts', communityId), then the status
\* of the loaded document
ReviewPermission(p) ==
  /\ proc[p].pc = "review_perm"
  /\ IF ~userHasPermission(roles, proc[p].a, "approve_experts", application.cid, "null")
     THEN Respond(p, proc[p], "forbidden")
     ELSE IF proc[p].ms # "pending"
     THEN Respond(p, proc[p], "error")
     ELSE Set(p, [proc[p] EXCEPT !.pc = "review_save"])
  /\ UNCHANGED <<group, mem, roles, tally, rt, answer, application, community>>

\* application.approve() / application.reject(): status is set and saved
ReviewSave(p) ==
  /\ proc[p].pc = "review_save"
  /\ IF proc[p].op = "approveApplication"
     THEN /\ application' = [application EXCEPT !.status = "approved"]
          /\ Set(p, [proc[p] EXCEPT !.pc = "review_role"])
     ELSE /\ application' = [application EXCEPT !.status = "rejected"]
          /\ Respond(p, proc[p], "ok")
  /\ UNCHANGED <<group, mem, roles, tally, rt, answer, community>>

\* new UserRole({role: 'expert', communityId, verificationStatus: 'verified',
\* expertiseAreas}).save(): validation, then the insert
ReviewRole(p) ==
  /\ proc[p].pc = "review_role"
  /\ IF proc[p].body = "unlisted"
     THEN /\ Respond(p, proc[p], "error")
          /\ UNCHANGED <<group, mem, roles, tally, rt, answer, application, community>>
     ELSE SaveNewRole(p, NewRole(application.user, "expert", application.cid, {}, "verified"))

NextReview ==
  \/ \E u \in RoleUsers, cid \in Communities : submitApplication(u, cid)
  \/ \E p \in Procs, a \in RoleUsers, areas \in ExpertiseAreas :
       BeginReview(p, a, "approveApplication", areas)
  \/ \E p \in Procs, a \in RoleUsers : BeginReview(p, a, "rejectApplication", "null")
  \/ \E p \in Procs : ReviewFind(p) \/ ReviewPermission(p) \/ ReviewSave(p) \/ ReviewRole(p)
  \/ \E p \in Procs : Return(p)

SpecReview == InitRole /\ [][NextReview]_vars

\* the applicant holds an active verified expert record in the community of
\* the application
ApplicantIsExpert ==
  \E r \in roles : /\ r.user = application.user /\ r.role = "expert"
                   /\ r.cid = application.cid /\ r.active /\ r.vstatus = "verified"

\* C30: once approveApplication has answered, with success or with an error,
\* and no review is in flight, the application is approved if and only if the
\* applicant holds an active verified expert record in its community; and only
\* a pending application is reviewed.
C30_ApprovedIffExpert ==
  [][/\ ((\E p \in Procs : proc'[p].pc = "done" /\ proc'[p].op = "approveApplication")
           /\ Quiet') =>
          ((application'.status = "approved") <=> ApplicantIsExpert')
     /\ (application'.status # application.status /\ application.status # "none") =>
          application.status = "pending"]_vars
====
